---- MODULE Spec2Model ----
(***************************************************************************)
(* A model of the map_to_range crate (src/src/lib.rs): the MapRange trait  *)
(* with its two provided methods, map_range and map_range_uncasted, and    *)
(* the per-type impls of CheckedNumberArithmetics and                      *)
(* CheckedNumberCastsToFloat.                                              *)
(*                                                                         *)
(* Numbers.  TLC's integers are 32 bits wide, the crate's go up to 64 bits *)
(* and its f64 carries a 53 bit significand, so every number is held as a  *)
(* magnitude in limbs: a natural number is a little-endian sequence of     *)
(* digits in base 2^15 without leading zero digits (zero is << >>).        *)
(*   integer value : [neg |-> BOOLEAN, mag |-> limbs]   (zero: neg FALSE)  *)
(*   float value   : [k |-> "fin" | "inf" | "nan", s |-> 0 | 1,            *)
(*                    m |-> limbs, e |-> Int]   value (-1)^s * m * 2^e,    *)
(*                   m odd (or zero with e = 0): one record per value.     *)
(*   Option<T>     : << >> is None, <<x>> is Some(x).                      *)
(***************************************************************************)
EXTENDS Integers, Sequences, FiniteSets, TLC

\* ------------------------------------------------------------------------
\* Natural numbers in limbs
\* ------------------------------------------------------------------------
Base == 2^15

\* the number of bits of i: 0 for zero, else floor(log2 i) + 1
RECURSIVE SmallBitLen(_)
SmallBitLen(i) == IF i = 0 THEN 0 ELSE 1 + SmallBitLen(i \div 2)

LimbBits == SmallBitLen(Base) - 1

RECURSIVE Pow2(_)
Pow2(n) == IF n = 0 THEN 1 ELSE 2 * Pow2(n - 1)

Rest(a) == IF a = << >> THEN << >> ELSE Tail(a)
Lo(a) == IF a = << >> THEN 0 ELSE Head(a)

RECURSIVE NNorm(_)
NNorm(a) ==
    IF a = << >> THEN << >>
    ELSE IF a[Len(a)] = 0 THEN NNorm(SubSeq(a, 1, Len(a) - 1))
    ELSE a

\* a small non-negative TLC integer as limbs
RECURSIVE NFromInt(_)
NFromInt(i) == IF i = 0 THEN << >> ELSE <<i % Base>> \o NFromInt(i \div Base)

RECURSIVE NAddC(_, _, _)
NAddC(a, b, c) ==
    IF a = << >> /\ b = << >>
    THEN (IF c = 0 THEN << >> ELSE <<c>>)
    ELSE LET x == Lo(a) + Lo(b) + c
         IN  <<x % Base>> \o NAddC(Rest(a), Rest(b), x \div Base)

NAdd(a, b) == NAddC(a, b, 0)

\* a - b - c for a >= b + c
RECURSIVE NSubB(_, _, _)
NSubB(a, b, c) ==
    IF a = << >> THEN << >>
    ELSE LET x == Lo(a) - Lo(b) - c
         IN  IF x < 0
             THEN <<x + Base>> \o NSubB(Rest(a), Rest(b), 1)
             ELSE <<x>> \o NSubB(Rest(a), Rest(b), 0)

NSub(a, b) == NNorm(NSubB(a, b, 0))

\* -1, 0, 1 as a < b, a = b, a > b
RECURSIVE NCmpFrom(_, _, _)
NCmpFrom(a, b, i) ==
    IF i = 0 THEN 0
    ELSE IF a[i] < b[i] THEN -1
    ELSE IF a[i] > b[i] THEN 1
    ELSE NCmpFrom(a, b, i - 1)

NCmp(a, b) ==
    IF Len(a) < Len(b) THEN -1
    ELSE IF Len(a) > Len(b) THEN 1
    ELSE NCmpFrom(a, b, Len(a))

\* a * k + c for 0 <= k, c < Base
RECURSIVE NMulSmallC(_, _, _)
NMulSmallC(a, k, c) ==
    IF a = << >> THEN (IF c = 0 THEN << >> ELSE <<c>>)
    ELSE LET x == Head(a) * k + c
         IN  <<x % Base>> \o NMulSmallC(Tail(a), k, x \div Base)

NMulSmall(a, k) == IF k = 0 THEN << >> ELSE NMulSmallC(a, k, 0)

RECURSIVE NMul(_, _)
NMul(a, b) ==
    IF a = << >> \/ b = << >> THEN << >>
    ELSE LET rest == NMul(a, Tail(b))
         IN  NAdd(NMulSmall(a, Head(b)),
                  IF rest = << >> THEN << >> ELSE <<0>> \o rest)

NBitLen(a) ==
    IF a = << >> THEN 0
    ELSE LimbBits * (Len(a) - 1) + SmallBitLen(a[Len(a)])

\* the number of trailing zero bits of a # 0
RECURSIVE SmallTz(_)
SmallTz(i) == IF i % 2 = 1 THEN 0 ELSE 1 + SmallTz(i \div 2)

RECURSIVE NTz(_)
NTz(a) == IF Head(a) = 0 THEN LimbBits + NTz(Tail(a)) ELSE SmallTz(Head(a))

NIsOdd(a) == a # << >> /\ Head(a) % 2 = 1

\* a * 2^n
NShl(a, n) ==
    IF a = << >> THEN << >>
    ELSE [i \in 1..(n \div LimbBits) |-> 0] \o NMulSmallC(a, Pow2(n % LimbBits), 0)

\* floor(a / k) for 0 < k <= Base, from the most significant limb down
RECURSIVE NDivSmallR(_, _, _, _)
NDivSmallR(a, k, i, r) ==
    IF i = 0 THEN << >>
    ELSE LET x == r * Base + a[i]
         IN  NDivSmallR(a, k, i - 1, x % k) \o <<x \div k>>

NDivSmall(a, k) == NNorm(NDivSmallR(a, k, Len(a), 0))

RECURSIVE NModSmallR(_, _, _, _)
NModSmallR(a, k, i, r) ==
    IF i = 0 THEN r ELSE NModSmallR(a, k, i - 1, (r * Base + a[i]) % k)

NModSmall(a, k) == NModSmallR(a, k, Len(a), 0)

\* floor(a / 2^n)
NShr(a, n) ==
    IF n \div LimbBits >= Len(a) THEN << >>
    ELSE NDivSmall(SubSeq(a, (n \div LimbBits) + 1, Len(a)), Pow2(n % LimbBits))

\* the largest q with d * q <= cur, counted down from an estimate est >= q
RECURSIVE QCorrect(_, _, _)
QCorrect(cur, d, est) ==
    IF NCmp(NMulSmall(d, est), cur) > 0 THEN QCorrect(cur, d, est - 1) ELSE est

\* one digit of a long division: floor(cur / d) for cur < d * Base, estimated
\* from the leading limbs (at most 2 too large when d's top limb >= Base / 2)
QDigit(cur, d) ==
    LET n    == Len(d)
        dtop == d[n]
        est  == IF Len(cur) < n THEN 0
                ELSE IF Len(cur) = n THEN cur[n] \div dtop
                ELSE LET q == (cur[n + 1] * Base + cur[n]) \div dtop
                     IN  IF q > Base - 1 THEN Base - 1 ELSE q
    IN  QCorrect(cur, d, est)

\* schoolbook long division of a's limbs i..1 by d, r the remainder so far:
\* <<the quotient's limbs, the remainder>>
RECURSIVE NDivModLimbs(_, _, _, _)
NDivModLimbs(a, d, i, r) ==
    IF i = 0 THEN << << >>, r >>
    ELSE LET cur == NNorm(<<a[i]>> \o r)
             q   == QDigit(cur, d)
             rec == NDivModLimbs(a, d, i - 1, NSub(cur, NMulSmall(d, q)))
         IN  << rec[1] \o <<q>>, rec[2] >>

\* <<floor(a / d), a mod d>> for d # 0; the operands are scaled so that d's top
\* limb is at least Base / 2
NDivMod(a, d) ==
    IF Len(d) = 1
    THEN <<NDivSmall(a, d[1]), NFromInt(NModSmall(a, d[1]))>>
    ELSE LET s  == LimbBits - SmallBitLen(d[Len(d)])
             a2 == NShl(a, s)
             d2 == NShl(d, s)
             qr == NDivModLimbs(a2, d2, Len(a2), << >>)
         IN  <<NNorm(qr[1]), NShr(qr[2], s)>>

\* ------------------------------------------------------------------------
\* IEEE 754 binary floating point, round to nearest, ties to even
\* ------------------------------------------------------------------------
\* a format: p bits of significand, every finite value below 2^emax in
\* magnitude and a multiple of 2^emin
F64 == [p |-> 53, emin |-> -1074, emax |-> 1024]
F32 == [p |-> 24, emin |-> -149, emax |-> 128]

FZero(s) == [k |-> "fin", s |-> s, m |-> << >>, e |-> 0]
FInf(s) == [k |-> "inf", s |-> s, m |-> << >>, e |-> 0]
FNaN == [k |-> "nan", s |-> 0, m |-> << >>, e |-> 0]

\* (-1)^s * m * 2^e as the one record of that value
FCanon(s, m, e) ==
    IF m = << >> THEN FZero(s)
    ELSE LET t == NTz(m)
         IN  [k |-> "fin", s |-> s, m |-> NShr(m, t), e |-> e + t]

\* the value of format fmt nearest to (-1)^s * n * 2^e (ties to even,
\* overflow to infinity)
FRound(fmt, s, n, e) ==
    IF n = << >> THEN FZero(s)
    ELSE LET top == e + NBitLen(n)
             g   == IF top - fmt.p > fmt.emin THEN top - fmt.p ELSE fmt.emin
         IN  IF g <= e
             THEN (IF top > fmt.emax THEN FInf(s) ELSE FCanon(s, n, e))
             ELSE LET sh     == g - e
                      q      == NShr(n, sh)
                      rb     == NIsOdd(NShr(n, sh - 1))
                      sticky == NTz(n) < sh - 1
                      q2     == IF rb /\ (sticky \/ NIsOdd(q))
                                THEN NAdd(q, <<1>>) ELSE q
                  IN  IF q2 = << >> THEN FZero(s)
                      ELSE IF g + NBitLen(q2) > fmt.emax THEN FInf(s)
                      ELSE FCanon(s, q2, g)

\* the largest finite value of the format (f64::MAX, f32::MAX)
FMax(fmt) == FCanon(0, NSub(NShl(<<1>>, fmt.p), <<1>>), fmt.emax - fmt.p)

FIsZero(a) == a.k = "fin" /\ a.m = << >>
FNeg(a) == IF a.k = "nan" THEN a ELSE [a EXCEPT !.s = 1 - a.s]
Xor(s, t) == (s + t) % 2

\* -1, 0, 1 as |a| < |b|, |a| = |b|, |a| > |b|, neither a NaN
FCmpMag(a, b) ==
    IF a.k = "inf" \/ b.k = "inf"
    THEN (IF a.k = b.k THEN 0 ELSE IF a.k = "inf" THEN 1 ELSE -1)
    ELSE IF a.m = << >> \/ b.m = << >>
    THEN (IF a.m = b.m THEN 0 ELSE IF a.m = << >> THEN -1 ELSE 1)
    ELSE LET ta == a.e + NBitLen(a.m)
             tb == b.e + NBitLen(b.m)
             e0 == IF a.e < b.e THEN a.e ELSE b.e
         IN  IF ta < tb THEN -1
             ELSE IF ta > tb THEN 1
             ELSE NCmp(NShl(a.m, a.e - e0), NShl(b.m, b.e - e0))

\* -1, 0, 1 as a < b, a = b, a > b, neither a NaN (-0 = +0)
FCmp(a, b) ==
    IF FIsZero(a) /\ FIsZero(b) THEN 0
    ELSE IF FIsZero(a) THEN (IF b.s = 0 THEN -1 ELSE 1)
    ELSE IF FIsZero(b) THEN (IF a.s = 0 THEN 1 ELSE -1)
    ELSE IF a.s # b.s THEN (IF a.s = 1 THEN -1 ELSE 1)
    ELSE IF a.s = 0 THEN FCmpMag(a, b) ELSE FCmpMag(b, a)

\* the comparison operators: every ordered comparison with a NaN is false
FLt(a, b) == a.k # "nan" /\ b.k # "nan" /\ FCmp(a, b) < 0
FGt(a, b) == a.k # "nan" /\ b.k # "nan" /\ FCmp(a, b) > 0
FLe(a, b) == a.k # "nan" /\ b.k # "nan" /\ FCmp(a, b) <= 0
FGe(a, b) == a.k # "nan" /\ b.k # "nan" /\ FCmp(a, b) >= 0
FEq(a, b) == a.k # "nan" /\ b.k # "nan" /\ FCmp(a, b) = 0
FNe(a, b) == ~FEq(a, b)

\* a + b
FAdd(fmt, a, b) ==
    IF a.k = "nan" \/ b.k = "nan" THEN FNaN
    ELSE IF a.k = "inf"
    THEN (IF b.k = "inf" /\ b.s # a.s THEN FNaN ELSE a)
    ELSE IF b.k = "inf" THEN b
    ELSE IF FIsZero(a) /\ FIsZero(b)
    THEN FZero(IF a.s = 1 /\ b.s = 1 THEN 1 ELSE 0)
    ELSE IF FIsZero(a) THEN b
    ELSE IF FIsZero(b) THEN a
    ELSE LET ta == a.e + NBitLen(a.m)
             tb == b.e + NBitLen(b.m)
             e0 == IF a.e < b.e THEN a.e ELSE b.e
             x  == NShl(a.m, a.e - e0)
             y  == NShl(b.m, b.e - e0)
             c  == NCmp(x, y)
         IN  \* an operand below an eighth of the other's last place is
             \* rounded away
             IF ta - tb >= fmt.p + 3 THEN a
             ELSE IF tb - ta >= fmt.p + 3 THEN b
             ELSE IF a.s = b.s THEN FRound(fmt, a.s, NAdd(x, y), e0)
             ELSE IF c = 0 THEN FZero(0)
             ELSE IF c > 0 THEN FRound(fmt, a.s, NSub(x, y), e0)
             ELSE FRound(fmt, b.s, NSub(y, x), e0)

\* a - b
FSub(fmt, a, b) == FAdd(fmt, a, FNeg(b))

\* a * b
FMul(fmt, a, b) ==
    IF a.k = "nan" \/ b.k = "nan" THEN FNaN
    ELSE IF a.k = "inf" \/ b.k = "inf"
    THEN (IF FIsZero(a) \/ FIsZero(b) THEN FNaN ELSE FInf(Xor(a.s, b.s)))
    ELSE FRound(fmt, Xor(a.s, b.s), NMul(a.m, b.m), a.e + b.e)

\* a / b: the quotient of the significands to p + 2 bits and more, its last
\* bit set when the division leaves a remainder
FDiv(fmt, a, b) ==
    IF a.k = "nan" \/ b.k = "nan" THEN FNaN
    ELSE IF a.k = "inf"
    THEN (IF b.k = "inf" THEN FNaN ELSE FInf(Xor(a.s, b.s)))
    ELSE IF b.k = "inf" THEN FZero(Xor(a.s, b.s))
    ELSE IF FIsZero(b)
    THEN (IF FIsZero(a) THEN FNaN ELSE FInf(Xor(a.s, b.s)))
    ELSE IF FIsZero(a) THEN FZero(Xor(a.s, b.s))
    ELSE LET d  == fmt.p + 3 + NBitLen(b.m) - NBitLen(a.m)
             sh == IF d > 0 THEN d ELSE 0
             qr == NDivMod(NShl(a.m, sh), b.m)
             n  == NAddC(qr[1], qr[1], IF qr[2] = << >> THEN 0 ELSE 1)
         IN  FRound(fmt, Xor(a.s, b.s), n, a.e - b.e - sh - 1)

\* ------------------------------------------------------------------------
\* The primitive types
\* ------------------------------------------------------------------------
None == << >>
Some(v) == <<v>>

UnsignedReps == {"u8", "u16", "u32", "u64"}
SignedReps == {"i8", "i16", "i32", "i64"}
IntReps == UnsignedReps \cup SignedReps
FloatReps == {"f32", "f64"}
Reps == IntReps \cup FloatReps

\* the width of an integer type (usize and isize have the implementations of
\* u64 and i64 and, on a 64 bit target, their values)
IntBits ==
    [r \in IntReps |->
        CASE r \in {"u8", "i8"} -> 8
          [] r \in {"u16", "i16"} -> 16
          [] r \in {"u32", "i32"} -> 32
          [] OTHER -> 64]

FloatFmt == [r \in FloatReps |-> IF r = "f32" THEN F32 ELSE F64]

\* integers: sign and magnitude
ZNorm(neg, mag) == [neg |-> neg /\ mag # << >>, mag |-> mag]
ZFromInt(i) == IF i < 0 THEN ZNorm(TRUE, NFromInt(-i)) ELSE ZNorm(FALSE, NFromInt(i))
ZNeg(a) == ZNorm(~a.neg, a.mag)

ZAdd(a, b) ==
    IF a.neg = b.neg THEN ZNorm(a.neg, NAdd(a.mag, b.mag))
    ELSE IF NCmp(a.mag, b.mag) >= 0 THEN ZNorm(a.neg, NSub(a.mag, b.mag))
    ELSE ZNorm(b.neg, NSub(b.mag, a.mag))

ZSub(a, b) == ZAdd(a, ZNeg(b))
ZMul(a, b) == ZNorm(a.neg # b.neg, NMul(a.mag, b.mag))

\* a / b rounded toward zero, b # 0
ZDiv(a, b) == ZNorm(a.neg # b.neg, NDivMod(a.mag, b.mag)[1])

ZCmp(a, b) ==
    IF a.neg # b.neg THEN (IF a.neg THEN -1 ELSE 1)
    ELSE IF a.neg THEN NCmp(b.mag, a.mag)
    ELSE NCmp(a.mag, b.mag)

\* uN::MIN, iN::MIN, uN::MAX, iN::MAX
IntMIN ==
    [r \in IntReps |->
        IF r \in SignedReps THEN ZNorm(TRUE, NShl(<<1>>, IntBits[r] - 1))
        ELSE ZNorm(FALSE, << >>)]

IntMAX ==
    [r \in IntReps |->
        ZNorm(FALSE, NSub(NShl(<<1>>, IF r \in SignedReps THEN IntBits[r] - 1
                                      ELSE IntBits[r]), <<1>>))]

\* the checked_add, checked_sub, checked_mul of the integer types: None when
\* the exact result z overflows the type
Checked(rep, z) ==
    IF ZCmp(z, IntMIN[rep]) < 0 \/ ZCmp(z, IntMAX[rep]) > 0 THEN None ELSE Some(z)

\* `self as f64` of an integer: the nearest f64
IntAsF64(z) == FRound(F64, IF z.neg THEN 1 ELSE 0, z.mag, 0)

\* `other as uN`, `other as iN` of an f64: toward zero, saturating, NaN to 0
F64AsInt(rep, other) ==
    IF other.k = "nan" THEN ZFromInt(0)
    ELSE IF other.k = "inf" \/ other.e + NBitLen(other.m) > IntBits[rep]
    THEN (IF other.s = 1 THEN IntMIN[rep] ELSE IntMAX[rep])
    ELSE LET t == IF other.e >= 0 THEN NShl(other.m, other.e)
                  ELSE NShr(other.m, -other.e)
             z == ZNorm(other.s = 1, t)
         IN  IF ZCmp(z, IntMIN[rep]) < 0 THEN IntMIN[rep]
             ELSE IF ZCmp(z, IntMAX[rep]) > 0 THEN IntMAX[rep]
             ELSE z

\* `other as f32` of an f64: the nearest f32
F64AsF32(other) ==
    IF other.k = "fin" THEN FRound(F32, other.s, other.m, other.e) ELSE other

\* f64::MAX, f32::MAX, f32::MIN
FloatMAX == [r \in FloatReps |-> FMax(FloatFmt[r])]
FloatMIN == [r \in FloatReps |-> FNeg(FMax(FloatFmt[r]))]

\* `<` and `>` of PartialOrd
Lt(rep, a, b) == IF rep \in FloatReps THEN FLt(a, b) ELSE ZCmp(a, b) < 0
Gt(rep, a, b) == IF rep \in FloatReps THEN FGt(a, b) ELSE ZCmp(a, b) > 0

\* ------------------------------------------------------------------------
\* trait CheckedNumberArithmetics
\* ------------------------------------------------------------------------
float_checked_add_mr(rep, self, other) ==
    IF FLe(FSub(FloatFmt[rep], FloatMAX[rep], self), other)
       \/ FLe(FSub(FloatFmt[rep], FloatMAX[rep], other), self)
    THEN None
    ELSE Some(FAdd(FloatFmt[rep], self, other))

float_checked_sub_mr(rep, self, other) == Some(FSub(FloatFmt[rep], self, other))

float_checked_mul_mr(rep, self, other) ==
    IF (FNe(self, FZero(0)) \/ FNe(other, FZero(0)))
       /\ (FLe(FDiv(FloatFmt[rep], FloatMAX[rep], self), other)
           /\ FLe(FDiv(FloatFmt[rep], FloatMAX[rep], other), self))
    THEN None
    ELSE Some(FMul(FloatFmt[rep], self, other))

float_checked_div_mr(rep, self, other) ==
    IF FEq(other, FZero(0)) THEN None ELSE Some(FDiv(FloatFmt[rep], self, other))

int_checked_add(rep, self, other) == Checked(rep, ZAdd(self, other))
int_checked_sub(rep, self, other) == Checked(rep, ZSub(self, other))
\* a multiplication that is not checked for overflow
int_unchecked_mul(rep, self, other) == Some(ZMul(self, other))

int_checked_mul(rep, self, other) == Checked(rep, ZMul(self, other))

int_checked_div(rep, self, other) ==
    IF other.mag = << >> THEN None ELSE Checked(rep, ZDiv(self, other))

checked_add_mr(rep, self, other) ==
    IF rep \in FloatReps THEN float_checked_add_mr(rep, self, other)
    ELSE int_checked_add(rep, self, other)

\* a subtraction with its operands exchanged
checked_sub_mr_exchanged(rep, self, other) ==
    IF rep \in FloatReps THEN float_checked_sub_mr(rep, other, self)
    ELSE int_checked_sub(rep, other, self)

checked_sub_mr(rep, self, other) ==
    IF rep \in FloatReps THEN float_checked_sub_mr(rep, self, other)
    ELSE int_checked_sub(rep, self, other)

checked_mul_mr(rep, self, other) ==
    IF rep \in FloatReps THEN float_checked_mul_mr(rep, self, other)
    ELSE int_checked_mul(rep, self, other)

checked_div_mr(rep, self, other) ==
    IF rep \in FloatReps THEN float_checked_div_mr(rep, self, other)
    ELSE int_checked_div(rep, self, other)

\* ------------------------------------------------------------------------
\* trait CheckedNumberCastsToFloat
\* ------------------------------------------------------------------------
checked_f64_cast(rep, self) ==
    IF rep \in FloatReps THEN Some(self) ELSE Some(IntAsF64(self))

checked_cast_back(rep, other) ==
    IF rep = "f64" THEN Some(other)
    ELSE IF rep = "f32"
    THEN (IF FGt(other, FloatMAX["f32"]) \/ FLt(other, FloatMIN["f32"])
          THEN None ELSE Some(F64AsF32(other)))
    ELSE IF FGt(other, IntAsF64(IntMAX[rep])) \/ FLt(other, IntAsF64(IntMIN[rep]))
    THEN None
    ELSE Some(F64AsInt(rep, other))

\* ------------------------------------------------------------------------
\* trait MapRange
\* ------------------------------------------------------------------------
\* `let x = e;` evaluates e once: x is the member of the one-element set {e}
Only(S) == CHOOSE x \in S : TRUE

\* the checked steps of map_range_uncasted that follow its range check; `?`
\* returns None at the first step that fails
Interpolate(rep, self, from_range, to_range) ==
    Only({ IF diff_self_from = None \/ diff_to = None \/ diff_from = None
           THEN None
           ELSE Only({ IF product = None THEN None
                       ELSE Only({ IF quotient = None THEN None
                                   ELSE checked_add_mr(rep, to_range[1], quotient[1]) :
                           quotient \in {checked_div_mr(rep, product[1], diff_from[1])} }) :
                   product \in {checked_mul_mr(rep, diff_self_from[1], diff_to[1])} }) :
        diff_self_from \in {checked_sub_mr(rep, self, from_range[1])},
        diff_to        \in {checked_sub_mr(rep, to_range[2], to_range[1])},
        diff_from      \in {checked_sub_mr(rep, from_range[2], from_range[1])} })

\* a map_range_uncasted that puts the bounds of an inverted source interval
\* in order before it uses them
map_range_uncasted_swapping(rep, self, from_range, to_range) ==
    Only({ IF Lt(rep, self, ordered[1]) \/ Gt(rep, self, ordered[2]) THEN None
           ELSE Interpolate(rep, self, ordered, to_range) :
        ordered \in {IF Gt(rep, from_range[1], from_range[2])
                     THEN <<from_range[2], from_range[1]>>
                     ELSE from_range} })

map_range_uncasted(rep, self, from_range, to_range) ==
    IF Lt(rep, self, from_range[1]) \/ Gt(rep, self, from_range[2]) THEN None
    ELSE Interpolate(rep, self, from_range, to_range)

map_range(rep, self, from_range, to_range) ==
    Only({ IF value = None \/ from_0 = None \/ from_1 = None
              \/ to_0 = None \/ to_1 = None
           THEN None
           ELSE Only({ IF mapped = None THEN None
                       ELSE checked_cast_back(rep, mapped[1]) :
                   mapped \in {map_range_uncasted("f64", value[1],
                                                  <<from_0[1], from_1[1]>>,
                                                  <<to_0[1], to_1[1]>>)} }) :
        value  \in {checked_f64_cast(rep, self)},
        from_0 \in {checked_f64_cast(rep, from_range[1])},
        from_1 \in {checked_f64_cast(rep, from_range[2])},
        to_0   \in {checked_f64_cast(rep, to_range[1])},
        to_1   \in {checked_f64_cast(rep, to_range[2])} })

\* ------------------------------------------------------------------------
\* The callers' inputs
\* ------------------------------------------------------------------------
\* how far the sampled integers reach in from the ends of the type
Near == 1

\* the integers the calls are made on: the Near + 1 values at each end of the
\* type, a tenth of its maximum, and 0 and -1 where the type has them
IntSamples ==
    [r \in IntReps |->
        {ZAdd(IntMIN[r], ZFromInt(k)) : k \in 0..Near}
        \cup {ZSub(IntMAX[r], ZFromInt(k)) : k \in 0..Near}
        \cup {ZFromInt(0), ZDiv(IntMAX[r], ZFromInt(10))}
        \cup (IF r \in SignedReps THEN {ZFromInt(-1)} ELSE {})]

\* the floats the calls are made on
FloatSamples ==
    [r \in FloatReps |->
        {FZero(0), FCanon(0, <<1>>, 0), FCanon(1, <<1>>, 0), FCanon(0, <<3>>, 0),
         FDiv(FloatFmt[r], FCanon(0, <<1>>, 0), FCanon(0, <<10>>, 0)),
         FloatMAX[r], FloatMIN[r], FInf(0), FNaN}]

Samples(r) == IF r \in FloatReps THEN FloatSamples[r] ELSE IntSamples[r]

VARIABLES
    rep,              \* the type the trait is used at
    self,             \* the value mapped
    from_range,       \* <<from_range.0, from_range.1>>
    to_range,         \* <<to_range.0, to_range.1>>
    called,           \* the method called: "none" before the call
    result            \* what the call returned

vars == <<rep, self, from_range, to_range, called, result>>

NoCallYet ==
    /\ called = "none"
    /\ result = None

\* `<=` and `==` of PartialOrd and PartialEq
Le(r, a, b) == IF r \in FloatReps THEN FLe(a, b) ELSE ZCmp(a, b) <= 0
Eq(r, a, b) == IF r \in FloatReps THEN FEq(a, b) ELSE a = b

\* every sampled call on a type of reps
InitOn(reps) ==
    /\ rep \in reps
    /\ self \in Samples(rep)
    /\ from_range \in Samples(rep) \X Samples(rep)
    /\ to_range \in Samples(rep) \X Samples(rep)
    /\ NoCallYet

Init == InitOn(Reps)

\* the integer types whose values are all exact in f64
NarrowReps == {r \in IntReps : IntBits[r] < F64.p}

InitNarrow == InitOn(NarrowReps)
InitInt == InitOn(IntReps)

\* the calls that map an interval of more than one point to itself
InitIdentity ==
    /\ rep \in Reps
    /\ self \in Samples(rep)
    /\ from_range \in {f \in Samples(rep) \X Samples(rep) : Lt(rep, f[1], f[2])}
    /\ to_range = from_range
    /\ NoCallYet

\* the calls whose source interval is a single point
InitZeroWidth ==
    /\ rep \in Reps
    /\ self \in Samples(rep)
    /\ from_range \in {<<a, a>> : a \in Samples(rep)}
    /\ to_range \in Samples(rep) \X Samples(rep)
    /\ NoCallYet

\* the integer calls whose source interval is inverted
InitInverted ==
    /\ rep \in IntReps
    /\ self \in Samples(rep)
    /\ from_range \in {f \in Samples(rep) \X Samples(rep) : Gt(rep, f[1], f[2])}
    /\ to_range \in Samples(rep) \X Samples(rep)
    /\ NoCallYet

\* the integer calls whose value lies in the source interval
InitInRange ==
    /\ rep \in IntReps
    /\ from_range \in Samples(rep) \X Samples(rep)
    /\ self \in {v \in Samples(rep) : Le(rep, from_range[1], v) /\ Le(rep, v, from_range[2])}
    /\ to_range \in Samples(rep) \X Samples(rep)
    /\ NoCallYet

\* of these, the calls whose target interval is in order
InitOrdered ==
    /\ InitInRange
    /\ Le(rep, to_range[1], to_range[2])

CallMapRange ==
    /\ called = "none"
    /\ called' = "map_range"
    /\ result' = map_range(rep, self, from_range, to_range)
    /\ UNCHANGED <<rep, self, from_range, to_range>>

CallMapRangeUncasted ==
    /\ called = "none"
    /\ called' = "map_range_uncasted"
    /\ result' = map_range_uncasted(rep, self, from_range, to_range)
    /\ UNCHANGED <<rep, self, from_range, to_range>>

Next == CallMapRange \/ CallMapRangeUncasted

Spec == Init /\ [][Next]_vars
SpecNarrow == InitNarrow /\ [][Next]_vars
SpecUncasted == InitInt /\ [][CallMapRangeUncasted]_vars
SpecIdentity == InitIdentity /\ [][Next]_vars
SpecZeroWidth == InitZeroWidth /\ [][Next]_vars
SpecInverted == InitInverted /\ [][Next]_vars
SpecInRange == InitInRange /\ [][Next]_vars
SpecOrdered == InitOrdered /\ [][Next]_vars

\* ------------------------------------------------------------------------
\* The claims
\* ------------------------------------------------------------------------
Casted == called = "map_range"
Uncasted == called = "map_range_uncasted"

\* the method that was called, map_range or map_range_uncasted, returned None
ReturnedNone == (Casted \/ Uncasted) => result = None

InRange(r, z) == ZCmp(IntMIN[r], z) <= 0 /\ ZCmp(z, IntMAX[r]) <= 0

\* the steps of the interpolation in unbounded integers
XDiffSelfFrom == ZSub(self, from_range[1])
XDiffTo == ZSub(to_range[2], to_range[1])
XDiffFrom == ZSub(from_range[2], from_range[1])
XProduct == ZMul(XDiffSelfFrom, XDiffTo)
\* to.0 + product / diff_from with the division truncated (diff_from # 0)
XSumOfTruncated == ZAdd(to_range[1], ZDiv(XProduct, XDiffFrom))
\* the exact to.0 + product / diff_from truncated toward zero (diff_from > 0)
XTruncatedSum == ZDiv(ZAdd(ZMul(to_range[1], XDiffFrom), XProduct), XDiffFrom)

SelfInFrom == Le(rep, from_range[1], self) /\ Le(rep, self, from_range[2])

\* C1: for every representation, a value below from_range.0 or above
\* from_range.1 makes both map_range and map_range_uncasted return None.
C1_OutsideSourceIsNone ==
    (Lt(rep, self, from_range[1]) \/ Gt(rep, self, from_range[2])) => ReturnedNone

\* C2: for every integer representation map_range_uncasted never returns a
\* wrapped value: it returns None when value - from.0, to.1 - to.0,
\* from.1 - from.0, their product or the final sum leaves [MIN, MAX], and every
\* Some(r) it returns is to.0 + ((value - from.0) * (to.1 - to.0)) / (from.1 -
\* from.0) in unbounded integers with truncating division.
C2_UncastedNeverWraps ==
    (rep \in IntReps /\ Uncasted) =>
        /\ (\/ ~InRange(rep, XDiffSelfFrom)
            \/ ~InRange(rep, XDiffTo)
            \/ ~InRange(rep, XDiffFrom)
            \/ ~InRange(rep, XProduct)
            \/ (XDiffFrom.mag # << >> /\ ~InRange(rep, XSumOfTruncated)))
           => result = None
        /\ result # None =>
               /\ XDiffFrom.mag # << >>
               /\ result = Some(XSumOfTruncated)
               /\ InRange(rep, XSumOfTruncated)

\* a call whose product overflows u8 came back with None
C2_Witness ==
    /\ rep = "u8"
    /\ Uncasted
    /\ SelfInFrom
    /\ InRange(rep, XDiffTo)
    /\ InRange(rep, XDiffFrom)
    /\ ~InRange(rep, XProduct)
    /\ result = None

\* C3: for every integer representation whose values are all exact in f64 and
\* from.0 <= value <= from.1, from.0 < from.1, map_range returns Some(r) with r
\* the exact to.0 + (value - from.0) * (to.1 - to.0) / (from.1 - from.0)
\* truncated toward zero.
C3_CastedIsExactTruncation ==
    (/\ rep \in NarrowReps
     /\ Casted
     /\ SelfInFrom
     /\ Lt(rep, from_range[1], from_range[2]))
    => result = Some(XTruncatedSum)

\* C4: identity: for every representation and a <= value <= b,
\* value.map_range((a, b), (a, b)) returns Some(value).
C4_IdentityMapping ==
    (Casted /\ to_range = from_range /\ SelfInFrom)
    => (result # None /\ Eq(rep, result[1], self))

\* C5: endpoints: for every representation, from.0 < from.1 and to.0 <= to.1,
\* map_range maps from.0 to Some(to.0) and from.1 to Some(to.1).
C5_EndpointsMapToEndpoints ==
    (/\ Casted
     /\ Lt(rep, from_range[1], from_range[2])
     /\ Le(rep, to_range[1], to_range[2]))
    => /\ self = from_range[1] => (result # None /\ Eq(rep, result[1], to_range[1]))
       /\ self = from_range[2] => (result # None /\ Eq(rep, result[1], to_range[2]))

\* C6: zero-width source interval: for every representation, every value and
\* every to_range, from_range.1 == from_range.0 makes both map_range and
\* map_range_uncasted return None.
C6_ZeroWidthSourceIsNone ==
    Eq(rep, from_range[2], from_range[1]) => ReturnedNone

\* C7: for every integer representation and to_range.0 <= to_range.1, every
\* Some(r) returned by map_range or map_range_uncasted has
\* to_range.0 <= r <= to_range.1.
C7_ResultInTargetInterval ==
    (/\ rep \in IntReps
     /\ Le(rep, to_range[1], to_range[2])
     /\ Casted \/ Uncasted
     /\ result # None)
    => (Le(rep, to_range[1], result[1]) /\ Le(rep, result[1], to_range[2]))

\* C8: inverted source interval: for every integer representation,
\* from_range.0 > from_range.1 makes both map_range and map_range_uncasted
\* return None for every value and every to_range.
C8_InvertedSourceIsNone ==
    (rep \in IntReps /\ Gt(rep, from_range[1], from_range[2])) => ReturnedNone

\* map_range_uncasted was called with a value that is not below the lower
\* bound of an inverted signed interval, and returned None
C8_Witness ==
    /\ rep \in SignedReps
    /\ Gt(rep, from_range[1], from_range[2])
    /\ ~Lt(rep, self, from_range[1])
    /\ Uncasted
    /\ result = None

\* C9: agreement: for every integer representation, whenever
\* map_range_uncasted returns Some(r), map_range on the same arguments
\* returns the same Some(r).
C9_CastedAgreesWithUncasted ==
    (rep \in IntReps /\ Uncasted /\ result # None)
    => map_range(rep, self, from_range, to_range) = result

\* C10: monotonicity: for every integer representation and fixed from_range
\* and to_range with to_range.0 <= to_range.1, if v1 <= v2 and map_range
\* (respectively map_range_uncasted) returns Some(r1) for v1 and Some(r2) for
\* v2, then r1 <= r2.
C10_Monotonic ==
    (rep \in IntReps /\ Le(rep, to_range[1], to_range[2])) =>
        \A v2 \in {v \in Samples(rep) : Lt(rep, self, v) /\ Le(rep, v, from_range[2])} :
            /\ (Casted /\ result # None) =>
                   LET r2 == map_range(rep, v2, from_range, to_range)
                   IN  r2 # None => Le(rep, result[1], r2[1])
            /\ (Uncasted /\ result # None) =>
                   LET r2 == map_range_uncasted(rep, v2, from_range, to_range)
                   IN  r2 # None => Le(rep, result[1], r2[1])

\* map_range returned Some for a value and for a larger value of the same
\* call, with distinct results
C10_Witness ==
    /\ rep = "i32"
    /\ Le(rep, to_range[1], to_range[2])
    /\ Casted
    /\ result # None
    /\ \E v2 \in Samples(rep) :
           /\ Lt(rep, self, v2)
           /\ LET r2 == map_range(rep, v2, from_range, to_range)
              IN  r2 # None /\ Lt(rep, result[1], r2[1])

====
